---- MODULE Spec2Model ----
(***************************************************************************)
(* The pycape client (src/pycape/cape.py): the Cape facade, the            *)
(* _EnclaveContext session it holds in Cape._ctx, and the websocket        *)
(* transport to the enclave.  Coroutines are cut at their awaits: the code *)
(* between two awaits is one atomic step of the calling task.              *)
(***************************************************************************)
EXTENDS Integers, Sequences, FiniteSets, TLC

None == "None"

\* Bound: number of _EnclaveContext objects (one per connect/run) ever created.
MaxSessions == 2

\* Bound: the same number where two callers race (RaceSpec).
MaxRaceSessions == 1

Sessions == 1..MaxSessions

\* The callers (asyncio tasks) that use one Cape client.
Tasks == {"t1", "t2"}

\* The nonces _generate_nonce may return.
Nonces == {"n1", "n2"}

(***************************************************************************)
(* Byte strings, hex and base64.  A byte string is a sequence of 0..255, a *)
(* text string a sequence of one-character strings.                        *)
(***************************************************************************)
HexDigits == <<"0", "1", "2", "3", "4", "5", "6", "7", "8", "9",
               "a", "b", "c", "d", "e", "f">>

RECURSIVE Hex(_)
\* bytes.hex(): two lower-case hex digits per byte.
Hex(bytes) ==
    IF bytes = <<>> THEN <<>>
    ELSE <<HexDigits[(Head(bytes) \div 16) + 1], HexDigits[(Head(bytes) % 16) + 1]>>
         \o Hex(Tail(bytes))

B64Alphabet == <<"A", "B", "C", "D", "E", "F", "G", "H", "I", "J", "K", "L", "M",
                 "N", "O", "P", "Q", "R", "S", "T", "U", "V", "W", "X", "Y", "Z",
                 "a", "b", "c", "d", "e", "f", "g", "h", "i", "j", "k", "l", "m",
                 "n", "o", "p", "q", "r", "s", "t", "u", "v", "w", "x", "y", "z",
                 "0", "1", "2", "3", "4", "5", "6", "7", "8", "9", "+", "/">>

B64Value(c) == (CHOOSE i \in 1..64 : B64Alphabet[i] = c) - 1

RECURSIVE B64Decode(_)
\* base64.b64decode of a padded text, four characters at a time.
B64Decode(text) ==
    IF Len(text) < 4 THEN <<>>
    ELSE LET v1 == B64Value(text[1])
             v2 == B64Value(text[2])
             b1 == v1 * 4 + (v2 \div 16)
             rest == B64Decode(SubSeq(text, 5, Len(text)))
         IN  IF text[3] = "="
             THEN <<b1>> \o rest
             ELSE LET v3 == B64Value(text[3])
                      b2 == (v2 % 16) * 16 + (v3 \div 4)
                  IN  IF text[4] = "="
                      THEN <<b1, b2>> \o rest
                      ELSE <<b1, b2, (v3 % 4) * 64 + B64Value(text[4])>> \o rest

RECURSIVE B64Encode(_)
\* base64.b64encode, three bytes at a time, padded with "=".
B64Encode(bytes) ==
    IF bytes = <<>> THEN <<>>
    ELSE LET n == Len(bytes)
             b1 == bytes[1]
             b2 == IF n >= 2 THEN bytes[2] ELSE 0
             b3 == IF n >= 3 THEN bytes[3] ELSE 0
         IN  <<B64Alphabet[(b1 \div 4) + 1],
               B64Alphabet[((b1 % 4) * 16 + (b2 \div 16)) + 1],
               IF n >= 2 THEN B64Alphabet[((b2 % 16) * 4 + (b3 \div 64)) + 1]
               ELSE "=",
               IF n >= 3 THEN B64Alphabet[(b3 % 64) + 1] ELSE "=">>
             \o (IF n > 3 THEN B64Encode(SubSeq(bytes, 4, n)) ELSE <<>>)

\* str.lower() on the characters a hex digest can hold.
LowerChar(c) ==
    CASE c = "A" -> "a" [] c = "B" -> "b" [] c = "C" -> "c"
      [] c = "D" -> "d" [] c = "E" -> "e" [] c = "F" -> "f"
      [] OTHER -> c

Lower(text) == [i \in 1..Len(text) |-> LowerChar(text[i])]

(***************************************************************************)
(* Inputs and wire data.                                                   *)
(***************************************************************************)
\* Python's None in a handle field (Cape._ctx, _websocket, _public_key).
Null == 0

\* FunctionRef.checksum: absent, or a hex text.  The enclave's digests are
\* the one-byte strings 0xab and 0xcd.
NoChecksum == [given |-> FALSE, text |-> <<>>]
Checksums == {NoChecksum,
              [given |-> TRUE, text |-> <<"a", "b">>],
              [given |-> TRUE, text |-> <<"A", "B">>]}

\* user_data of the attestation document: absent, or JSON with or without
\* a base64 func_checksum ("qw==" is 0xab, "zQ==" is 0xcd).
NoUserData == [present |-> FALSE, has_checksum |-> FALSE, func_checksum |-> <<>>]
UserDatas == {NoUserData,
              [present |-> TRUE, has_checksum |-> FALSE, func_checksum |-> <<>>],
              [present |-> TRUE, has_checksum |-> TRUE,
               func_checksum |-> <<"q", "w", "=", "=">>],
              [present |-> TRUE, has_checksum |-> TRUE,
               func_checksum |-> <<"z", "Q", "=", "=">>]}

\* The pcrs argument of connect/run: None, or index -> accepted values,
\* held as the set of accepted <<index, value>> pairs.
NoPolicy == [given |-> FALSE, idx |-> {}, allowed |-> {}]
Policies == {NoPolicy,
             [given |-> TRUE, idx |-> {0}, allowed |-> {<<0, "p1">>}],
             [given |-> TRUE, idx |-> {0}, allowed |-> {<<0, "p1">>, <<0, "p2">>}]}

\* The attestation documents an enclave (or an impostor) may answer a
\* handshake on session s with, the handshake having sent nonce n: the
\* documents that fail a check of parse_attestation, and those that pass
\* them all, with every echo of the nonce, PCR value and user_data.
Docs(s, n) ==
    ([wf : BOOLEAN, sig : BOOLEAN, chain : BOOLEAN,
      nonce : {n}, pcrs : {{<<0, "p1">>}}, public_key : {s},
      user_data : {NoUserData}]
     \ [wf : {TRUE}, sig : {TRUE}, chain : {TRUE},
        nonce : {n}, pcrs : {{<<0, "p1">>}}, public_key : {s},
        user_data : {NoUserData}])
    \cup
    [wf : {TRUE}, sig : {TRUE}, chain : {TRUE},
     nonce : {n, None} \cup (Nonces \ {n}),
     pcrs : {{}, {<<0, "p1">>}, {<<0, "p2">>}},
     public_key : {s},
     user_data : UserDatas]

\* The payload of a frame that carries no attestation document.
NoDoc(s, n) ==
    [wf |-> FALSE, sig |-> FALSE, chain |-> FALSE, nonce |-> n,
     pcrs |-> {<<0, "p1">>}, public_key |-> s, user_data |-> NoUserData]

\* The payloads a response may carry, and their base64 texts.
Blobs == {<<171>>, <<205>>}
B64Texts == {<<"q", "w", "=", "=">>, <<"z", "Q", "=", "=">>}

\* The error strings a response may carry.
ErrorTexts == {<<"b", "o", "o", "m">>, <<"B", "o", "o", "m", " ">>}

\* A websocket response: a binary frame holding raw bytes, or a text frame
\* holding a JSON object with or without an "error" key, with a "message"
\* key that is absent, an object or a plain string, and inside that object
\* with or without an inner "message" holding base64 text.
Response(framing, has_error, error, message, has_inner, inner, raw) ==
    [framing |-> framing, has_error |-> has_error, error |-> error,
     message |-> message, has_inner |-> has_inner, inner |-> inner, raw |-> raw]

Responses ==
    {Response("binary", FALSE, <<>>, "absent", FALSE, <<>>, b) : b \in Blobs}
    \cup {Response("json", TRUE, e, m, FALSE, <<>>, <<>>) :
             e \in ErrorTexts, m \in {"absent", "text"}}
    \cup {Response("json", TRUE, e, "object", TRUE, i, <<>>) :
             e \in ErrorTexts, i \in B64Texts}
    \cup {Response("json", FALSE, <<>>, m, FALSE, <<>>, <<>>) :
             m \in {"absent", "text", "object"}}
    \cup {Response("json", FALSE, <<>>, "object", TRUE, i, <<>>) : i \in B64Texts}

\* The responses the sessions below are answered with: one of each shape.
Frames ==
    {Response("binary", FALSE, <<>>, "absent", FALSE, <<>>, <<171>>),
     Response("json", TRUE, <<"b", "o", "o", "m">>, "absent", FALSE, <<>>, <<>>),
     Response("json", TRUE, <<"b", "o", "o", "m">>, "object", TRUE,
              <<"q", "w", "=", "=">>, <<>>),
     Response("json", FALSE, <<>>, "absent", FALSE, <<>>, <<>>),
     Response("json", FALSE, <<>>, "text", FALSE, <<>>, <<>>),
     Response("json", FALSE, <<>>, "object", FALSE, <<>>, <<>>),
     Response("json", FALSE, <<>>, "object", TRUE, <<"q", "w", "=", "=">>, <<>>)}

\* The tag of a request: who sent it, what it was, and for a handshake the
\* bootstrap attempt (session) whose _generate_nonce call made its nonce.
NoRequest == [from |-> None, kind |-> None, gen |-> Null]

(***************************************************************************)
(* State.                                                                  *)
(***************************************************************************)
VARIABLES
    root_cert,      \* Cape._root_cert: None or "root"
    ctx,            \* Cape._ctx: Null or the session it refers to
    nsess,          \* number of _EnclaveContext objects created so far
    websocket,      \* _EnclaveContext._websocket, per session: Null or the socket
    public_key,     \* _EnclaveContext._public_key, per session: Null or the key
    wsState,        \* the socket of each session: unopened, open, closed by
                    \* the peer (peer_ok, peer_err) or closed locally (closed)
    wsCloseCalls,   \* how often close() was called on each socket
    pending,        \* per socket: the requests sent and not yet answered to a recv
    phase,          \* per session: the last lifecycle event it went through
    task,           \* per caller: where it is in its call and what it got
    call,           \* the last call of a function made on its own, outside
                    \* a session: its arguments and result
    files,          \* the Cape key files on disk, per path
    downloads       \* how often download_root_cert has returned a certificate

vars == <<root_cert, ctx, nsess, websocket, public_key, wsState, wsCloseCalls,
          pending, phase, task, call, files, downloads>>

\* The paths Cape.key looks a key file up at: the key_path argument, the
\* cache of a user name, and the CLI user's own key file.
Paths == {"given", "user", "default"}

\* A path with no file.
NoFile == [exists |-> FALSE, bytes |-> <<>>]

\* No call made yet.
NoCall == [fn |-> "none"]

\* A caller between calls.  op is the public method called last, out its
\* outcome ("none" while it runs), pre the session state an invoke found,
\* io whether that invoke called send or recv on a socket, stale whether
\* the attestation document its connect received echoed a nonce other than
\* the one its handshake sent, gen the bootstrap attempt that generated the
\* nonce its bootstrap holds, checked the attempt that generated the nonce
\* it passed to parse_attestation, pcrBad whether the document it received
\* does not meet the PCR policy of the call, key the public key its invoke
\* sealed the request it sent under (Null: it sent none), own the session
\* its connect created.
TaskInit ==
    [pc |-> "idle", op |-> "none", inRun |-> FALSE, sess |-> Null,
     checksum |-> NoChecksum, pcrs |-> NoPolicy, nonce |-> None,
     ud |-> NoUserData, out |-> "none", pre |-> "none", res |-> NoRequest,
     io |-> FALSE, overlap |-> FALSE, stale |-> FALSE, gen |-> Null,
     checked |-> Null, pcrBad |-> FALSE, key |-> Null, own |-> Null]

Init ==
    /\ root_cert = None
    /\ ctx = Null
    /\ nsess = 0
    /\ websocket = [s \in Sessions |-> Null]
    /\ public_key = [s \in Sessions |-> Null]
    /\ wsState = [s \in Sessions |-> "unopened"]
    /\ wsCloseCalls = [s \in Sessions |-> 0]
    /\ pending = [s \in Sessions |-> <<>>]
    /\ phase = [s \in Sessions |-> "Absent"]
    /\ task = [t \in Tasks |-> TaskInit]
    /\ call = NoCall
    /\ files = [p \in Paths |-> NoFile]
    /\ downloads = 0

\* The part of the state the session operations act on, as one record.
Store ==
    [ctx |-> ctx, websocket |-> websocket, public_key |-> public_key,
     wsState |-> wsState, wsCloseCalls |-> wsCloseCalls, phase |-> phase]

SetStore(st) ==
    /\ ctx' = st.ctx
    /\ websocket' = st.websocket
    /\ public_key' = st.public_key
    /\ wsState' = st.wsState
    /\ wsCloseCalls' = st.wsCloseCalls
    /\ phase' = st.phase

(***************************************************************************)
(* Pure parts of the code.                                                 *)
(***************************************************************************)
\* What a call raised or returned: the kind of outcome, the message of the
\* exception (text) and the bytes returned.
Result(out, text, bytes) == [out |-> out, text |-> text, bytes |-> bytes]

\* _parse_wss_response: json.loads raises on a binary frame that is no
\* JSON; an error key raises Exception(response["error"]); a missing
\* message or inner message raises RuntimeError from _handle_expected_field;
\* a message that is a plain string has no .get (AttributeError); otherwise
\* the base64-decoded inner message is returned.
ParseWssResult(response) ==
    IF response.framing = "binary" THEN Result("json_error", <<>>, <<>>)
    ELSE IF response.has_error THEN Result("remote_error", response.error, <<>>)
    ELSE IF response.message = "absent" THEN Result("malformed_response", <<>>, <<>>)
    ELSE IF response.message = "text" THEN Result("attribute_error", <<>>, <<>>)
    ELSE IF ~response.has_inner THEN Result("malformed_response", <<>>, <<>>)
    ELSE Result("ok", <<>>, B64Decode(response.inner))

\* How _parse_wss_response ends.
ParseWssResponse(frame) == ParseWssResult(frame).out

\* attest.parse_attestation(doc, root_cert, nonce=nonce): well-formedness,
\* signature, certificate chain, then the echoed nonce (when a nonce is
\* passed and the document carries one).
ParseAttestation(doc, nonce) ==
    IF ~doc.wf THEN "malformed_attestation"
    ELSE IF ~doc.sig THEN "invalid_signature"
    ELSE IF ~doc.chain THEN "chain_failed"
    ELSE IF nonce # None /\ doc.nonce # None /\ doc.nonce # nonce THEN "replay"
    ELSE "ok"

\* A verify_pcrs that passes over the policy indexes the document lacks.
VerifyPcrs_SkipsMissing(policy, doc) ==
    \A i \in policy.idx :
        (\E m \in doc.pcrs : m[1] = i)
        => \E m \in doc.pcrs : m[1] = i /\ m \in policy.allowed

\* attest.verify_pcrs(pcrs, doc): every index of the policy has a document
\* value among the accepted ones.
VerifyPcrs(policy, doc) ==
    \A i \in policy.idx : \E m \in doc.pcrs : m[1] = i /\ m \in policy.allowed

\* A bootstrap that calls parse_attestation without nonce=nonce.
BootstrapOutcome_NoNonce(frame, doc, nonce, policy) ==
    IF ParseWssResponse(frame) # "ok"
    THEN [out |-> ParseWssResponse(frame), key |-> Null]
    ELSE IF ParseAttestation(doc, None) # "ok"
    THEN [out |-> ParseAttestation(doc, None), key |-> Null]
    ELSE IF policy.given /\ ~VerifyPcrs(policy, doc)
    THEN [out |-> "pcr_mismatch", key |-> doc.public_key]
    ELSE [out |-> "ok", key |-> doc.public_key]

\* _EnclaveContext.bootstrap after the handshake response arrived: how it
\* ends, and the value it has stored in _public_key by then (Null: none).
BootstrapOutcome(frame, doc, nonce, policy) ==
    IF ParseWssResponse(frame) # "ok"
    THEN [out |-> ParseWssResponse(frame), key |-> Null]
    ELSE IF ParseAttestation(doc, nonce) # "ok"
    THEN [out |-> ParseAttestation(doc, nonce), key |-> Null]
    ELSE IF policy.given /\ ~VerifyPcrs(policy, doc)
    THEN [out |-> "pcr_mismatch", key |-> doc.public_key]
    ELSE [out |-> "ok", key |-> doc.public_key]

\* Cape._request_connection after bootstrap returned: how it ends, and
\* whether it closed the session before raising.
ChecksumOutcome(checksum, user_data) ==
    IF checksum.given /\ ~user_data.present
    THEN [out |-> "checksum_error", closes |-> TRUE]
    ELSE IF ~user_data.present
    THEN [out |-> "type_error", closes |-> FALSE]       \* json.loads(None)
    ELSE IF ~checksum.given
    THEN [out |-> "ok", closes |-> FALSE]
    ELSE IF ~user_data.has_checksum
    THEN [out |-> "type_error", closes |-> FALSE]       \* b64decode(None)
    ELSE IF checksum.text # Hex(B64Decode(user_data.func_checksum))
    THEN [out |-> "checksum_error", closes |-> TRUE]
    ELSE [out |-> "ok", closes |-> FALSE]

\* enclave_encrypt.encrypt needs a keyset: it raises on a None key.
EncryptFails(key) == key = Null

\* _EnclaveContext.invoke up to and including its send on session s.
InvokeSendOutcome(st, s) ==
    IF EncryptFails(st.public_key[s]) THEN "encrypt_error"
    ELSE IF st.websocket[s] = Null THEN "attribute_error"
    ELSE IF st.wsState[st.websocket[s]] = "open" THEN "sent"
    ELSE IF st.wsState[st.websocket[s]] = "peer_err" THEN "conn_closed_error"
    ELSE "transport_closed"             \* ConnectionClosedOK is caught

\* A handler that also catches the abnormal close, and closes on it.
SendFailureCloses_AnyClose(o) == o \in {"transport_closed", "conn_closed_error"}

\* The except clause around invoke's send: the failures of the send on
\* which the session is closed before the error is raised.
SendFailureCloses(o) == o = "transport_closed"

\* What recv raises on a socket that is no longer open.
RecvClosedOutcome(state) ==
    IF state = "peer_err" THEN "conn_closed_error" ELSE "conn_closed_ok"

\* A close() that forgets to clear the public key.
SessionClose_KeepsKey(st, s) ==
    [st EXCEPT !.wsState[s] = IF st.websocket[s] # Null THEN "closed" ELSE @,
               !.wsCloseCalls[s] = IF st.websocket[s] # Null THEN @ + 1 ELSE @,
               !.websocket[s] = Null,
               !.phase[s] = "Closed"]

\* A close() that closes the socket but keeps the handle and the key.
SessionClose_KeepsFields(st, s) ==
    [st EXCEPT !.wsState[s] = IF st.websocket[s] # Null THEN "closed" ELSE @,
               !.wsCloseCalls[s] = IF st.websocket[s] # Null THEN @ + 1 ELSE @,
               !.phase[s] = "Closed"]

\* _EnclaveContext.close.
SessionClose(st, s) ==
    [st EXCEPT !.wsState[s] = IF st.websocket[s] # Null THEN "closed" ELSE @,
               !.wsCloseCalls[s] = IF st.websocket[s] # Null THEN @ + 1 ELSE @,
               !.websocket[s] = Null,
               !.public_key[s] = Null,
               !.phase[s] = "Closed"]

\* Cape.close.
CapeClose(st) ==
    IF st.ctx # Null THEN [SessionClose(st, st.ctx) EXCEPT !.ctx = Null] ELSE st

\* A function_context without try/finally: no close when the body raised.
AfterStage_NoFinally(inRun, stage, out) ==
    IF ~inRun THEN "idle"
    ELSE IF stage = "connect" /\ out = "ok" THEN "run_invoke"
    ELSE IF out = "ok" THEN "run_close"
    ELSE "idle"

\* Where a caller goes when connect or invoke has ended: inside run, a
\* connect that succeeded is followed by the invoke, and everything else by
\* the close of function_context's finally.
AfterStage(inRun, stage, out) ==
    IF ~inRun THEN "idle"
    ELSE IF stage = "connect" /\ out = "ok" THEN "run_invoke"
    ELSE "run_close"

\* A recv that leaves the response it read in the queue.
RecvEffect_Peek(queue) == queue

\* websocket.recv takes the oldest unanswered request's response.
RecvEffect(queue) == Tail(queue)

(***************************************************************************)
(* Steps of the callers.                                                   *)
(***************************************************************************)
\* The caller's record when the connect or invoke stage of its call ended.
\* (The steps below keep the checksum in the record only when bootstrap
\* succeeded, that is when _request_connection came to compare it.)
Ended(rec, stage, o) ==
    [rec EXCEPT !.pc = AfterStage(rec.inRun, stage, o),
                !.out = IF AfterStage(rec.inRun, stage, o) = "run_invoke"
                        THEN "none" ELSE o,
                !.pcrs = NoPolicy,
                !.nonce = None]

\* A connect that bootstraps the session the client already holds again.
NewSession_Reuse(current, created) ==
    IF current # Null THEN current ELSE created + 1

\* Every connect constructs a new _EnclaveContext; the one the client held
\* is dropped, never bootstrapped again.
NewSession(current, created) == created + 1

\* A client that downloads the root certificate for every request.
Downloads_Always(root) == 1

\* self._root_cert = self._root_cert or attest.download_root_cert(): the
\* number of download_root_cert calls it makes (the certificate is a
\* non-empty PEM text).
Downloads(root) == IF root = None THEN 1 ELSE 0

\* Cape._request_connection up to the await of websockets.connect: fetch
\* the root certificate if there is none, create the session, store it in
\* Cape._ctx, and start its bootstrap.
StartConnection(t, op, cs, pol, rootOk) ==
    LET rec == [TaskInit EXCEPT !.op = op, !.inRun = (op = "run")]
        s == NewSession(ctx, nsess)
    IN  /\ nsess < MaxSessions
        /\ IF root_cert = None /\ ~rootOk
           THEN /\ task' = [task EXCEPT ![t] = Ended(rec, "connect", "download_error")]
                /\ UNCHANGED <<root_cert, ctx, nsess, websocket, public_key, wsState,
                               wsCloseCalls, pending, phase, downloads>>
           ELSE /\ root_cert' = "root"
                /\ downloads' = downloads + Downloads(root_cert)
                /\ nsess' = s
                /\ ctx' = s
                /\ phase' = [phase EXCEPT ![s] = "Dialing"]
                /\ task' = [task EXCEPT ![t] =
                              [rec EXCEPT !.pc = "dial", !.sess = s, !.own = s,
                                          !.checksum = cs, !.pcrs = pol]]
                /\ UNCHANGED <<websocket, public_key, wsState, wsCloseCalls,
                               pending>>

\* attest.download_root_cert is called only while Cape._root_cert is None;
\* it returns the certificate (TRUE) or raises (FALSE).
DownloadResults == IF root_cert = None THEN BOOLEAN ELSE {TRUE}

\* Cape.connect(function_ref, token, pcrs).
Connect(t) ==
    /\ UNCHANGED <<call, files>>
    /\ task[t].pc = "idle"
    /\ \E cs \in Checksums, pol \in Policies, rootOk \in DownloadResults :
          StartConnection(t, "connect", cs, pol, rootOk)

\* Cape.run(function_ref, token, ..., serde_hooks=...): bundle_serde_hooks
\* raises ValueError on a malformed hook dictionary, before the context is
\* entered; otherwise the connect of function_context starts.
Run(t) ==
    /\ UNCHANGED <<call, files>>
    /\ task[t].pc = "idle"
    /\ \E hooksOk \in BOOLEAN :
          IF ~hooksOk
          THEN /\ task' = [task EXCEPT ![t] =
                             [TaskInit EXCEPT !.op = "run", !.out = "hooks_error"]]
               /\ UNCHANGED <<root_cert, ctx, nsess, websocket, public_key, wsState,
                              wsCloseCalls, pending, phase, downloads>>
          ELSE \E cs \in Checksums, pol \in Policies, rootOk \in DownloadResults :
                  StartConnection(t, "run", cs, pol, rootOk)

\* A client that generates a nonce once and keeps it for later attempts.
GeneratedIn_Cached(s) == 1

\* nonce = _generate_nonce() is a local of bootstrap: the nonce an attempt
\* sends and checks was generated in that attempt.
GeneratedIn(s) == s

\* _EnclaveContext.bootstrap, from websockets.connect returning to the
\* await of the handshake response: the socket is stored, a nonce is
\* generated and the handshake request is sent.
Dial(t) ==
    /\ UNCHANGED <<call, files, downloads>>
    /\ task[t].pc = "dial"
    /\ LET s == task[t].sess IN
       \E ok \in BOOLEAN, n \in Nonces :
          IF ok
          THEN /\ websocket' = [websocket EXCEPT ![s] = s]
               /\ wsState' = [wsState EXCEPT ![s] = "open"]
               /\ pending' = [pending EXCEPT ![s] =
                                Append(@, [from |-> t, kind |-> "nonce",
                                           gen |-> GeneratedIn(s)])]
               /\ phase' = [phase EXCEPT ![s] = "Authenticating"]
               /\ task' = [task EXCEPT ![t].pc = "auth_recv", ![t].nonce = n,
                                        ![t].gen = GeneratedIn(s)]
               /\ UNCHANGED <<root_cert, ctx, nsess, public_key, wsCloseCalls>>
          ELSE /\ phase' = [phase EXCEPT ![s] =
                              IF @ = "Dialing" THEN "Unconnected" ELSE @]
               /\ task' = [task EXCEPT ![t] =
                             Ended([@ EXCEPT !.checksum = NoChecksum],
                                   "connect", "dial_error")]
               /\ UNCHANGED <<root_cert, ctx, nsess, websocket, public_key, wsState,
                              wsCloseCalls, pending>>

\* The rest of the connect: authenticate's recv returns or raises,
\* bootstrap parses and verifies the attestation, stores the public key and
\* checks the PCRs; _request_connection then checks the function checksum.
AuthRecv(t) ==
    /\ UNCHANGED <<call, files, downloads>>
    /\ task[t].pc = "auth_recv"
    /\ LET s == task[t].sess
           rec == task[t]
       IN
       IF websocket[s] = Null
       THEN \* the session was closed meanwhile: None has no recv
            /\ task' = [task EXCEPT ![t] = Ended([rec EXCEPT !.checksum = NoChecksum],
                                     "connect", "attribute_error")]
            /\ UNCHANGED <<root_cert, ctx, nsess, websocket, public_key, wsState,
                           wsCloseCalls, pending, phase>>
       ELSE IF wsState[s] # "open"
       THEN /\ task' = [task EXCEPT ![t] =
                          Ended([rec EXCEPT !.checksum = NoChecksum], "connect",
                                RecvClosedOutcome(wsState[s]))]
            /\ phase' = [phase EXCEPT ![s] = "Failed"]
            /\ UNCHANGED <<root_cert, ctx, nsess, websocket, public_key, wsState,
                           wsCloseCalls, pending>>
       ELSE /\ pending[s] # <<>>
            /\ \E frame \in Frames, doc \in Docs(s, rec.nonce) :
                  /\ ParseWssResponse(frame) # "ok" => doc = NoDoc(s, rec.nonce)
                  /\ LET b == BootstrapOutcome(frame, doc, rec.nonce, rec.pcrs)
                      c == ChecksumOutcome(rec.checksum, doc.user_data)
                      st1 == [Store EXCEPT
                                !.public_key[s] = IF b.key # Null THEN b.key ELSE @,
                                !.phase[s] = IF b.out = "ok" THEN "Bootstrapped"
                                             ELSE "Failed"]
                      rec1 == [rec EXCEPT !.ud = IF b.out = "ok" THEN doc.user_data
                                                 ELSE @,
                                          !.stale = doc.nonce \notin {None, rec.nonce},
                                          !.checked = IF ParseWssResponse(frame) = "ok"
                                                      THEN rec.gen ELSE @,
                                          !.pcrBad = rec.pcrs.given
                                                     /\ ~VerifyPcrs(rec.pcrs, doc)]
                     IN
                      /\ pending' = [pending EXCEPT ![s] = RecvEffect(@)]
                      /\ UNCHANGED <<root_cert, nsess>>
                      /\ IF b.out # "ok"
                         THEN /\ SetStore(st1)
                              /\ task' = [task EXCEPT ![t] =
                                            Ended([rec1 EXCEPT !.checksum = NoChecksum],
                                                  "connect", b.out)]
                         ELSE IF c.closes /\ st1.ctx = Null
                         THEN \* self._ctx.close() on a client whose _ctx is None
                              /\ SetStore(st1)
                              /\ task' = [task EXCEPT ![t] =
                                            Ended(rec1, "connect", "attribute_error")]
                         ELSE IF c.closes
                         THEN /\ SetStore(SessionClose(st1, st1.ctx))
                              /\ task' = [task EXCEPT ![t] =
                                            Ended(rec1, "connect", c.out)]
                         ELSE /\ SetStore(st1)
                              /\ task' = [task EXCEPT ![t] =
                                            Ended(rec1, "connect", c.out)]

\* The session state an invoke finds.
Found(c) == IF c = Null THEN "NoSession" ELSE phase[c]

\* Cape.invoke -> _request_invocation -> _EnclaveContext.invoke, up to the
\* await of the response: arguments are checked, the input is encrypted
\* under the session's public key and sent.  A send on a socket that was
\* closed normally closes the session and raises the transport-closed error.
InvokeStart(t) ==
    /\ UNCHANGED <<call, files, downloads>>
    /\ task[t].pc \in {"idle", "run_invoke"}
    /\ \E argsOk \in BOOLEAN :
       LET rec == [(IF task[t].pc = "idle"
                    THEN [TaskInit EXCEPT !.op = "invoke"] ELSE task[t])
                   EXCEPT !.pre = Found(ctx)]
           o == IF ~argsOk THEN "value_error"
                ELSE IF ctx = Null THEN "attribute_error"
                ELSE InvokeSendOutcome(Store, ctx)
           called == o \in {"sent", "transport_closed", "conn_closed_error"}
           rec1 == [rec EXCEPT !.io = called,
                               !.sess = IF argsOk THEN ctx ELSE @,
                               !.key = IF o = "sent" THEN public_key[ctx] ELSE Null]
           others == {u \in Tasks \ {t} :
                         task[u].pc = "inv_recv" /\ task[u].sess = ctx}
       IN  IF o = "sent"
           THEN /\ pending' = [pending EXCEPT ![ctx] =
                                 Append(@, [from |-> t, kind |-> "invoke",
                                            gen |-> Null])]
                /\ task' = [u \in Tasks |->
                              IF u = t
                              THEN [rec1 EXCEPT !.pc = "inv_recv",
                                                !.overlap = (others # {})]
                              ELSE IF u \in others
                              THEN [task[u] EXCEPT !.overlap = TRUE]
                              ELSE task[u]]
                /\ UNCHANGED <<root_cert, ctx, nsess, websocket, public_key, wsState,
                               wsCloseCalls, phase>>
           ELSE /\ task' = [task EXCEPT ![t] = Ended(rec1, "invoke", o)]
                /\ IF SendFailureCloses(o)
                   THEN SetStore(SessionClose(Store, ctx))
                   ELSE UNCHANGED <<ctx, websocket, public_key, wsState,
                                    wsCloseCalls, phase>>
                /\ UNCHANGED <<root_cert, nsess, pending>>

\* _EnclaveContext.invoke from its recv on: the response is awaited and
\* parsed.  Nothing here catches an exception.
InvokeRecv(t) ==
    /\ UNCHANGED <<call, files, downloads>>
    /\ task[t].pc = "inv_recv"
    /\ LET s == task[t].sess
           rec == task[t]
       IN
       IF websocket[s] = Null
       THEN /\ task' = [task EXCEPT ![t] = Ended(rec, "invoke", "attribute_error")]
            /\ UNCHANGED pending
       ELSE IF wsState[s] # "open"
       THEN /\ task' = [task EXCEPT ![t] =
                          Ended([rec EXCEPT !.io = TRUE], "invoke",
                                RecvClosedOutcome(wsState[s]))]
            /\ UNCHANGED pending
       ELSE /\ pending[s] # <<>>
            /\ \E frame \in Frames :
                  /\ task' = [task EXCEPT ![t] =
                                Ended([rec EXCEPT !.io = TRUE,
                                                  !.res = IF ParseWssResponse(frame) = "ok"
                                                          THEN Head(pending[s]) ELSE @],
                                      "invoke", ParseWssResponse(frame))]
                  /\ pending' = [pending EXCEPT ![s] = RecvEffect(@)]
    /\ UNCHANGED <<root_cert, ctx, nsess, websocket, public_key, wsState,
                   wsCloseCalls, phase>>

\* Cape.close().  It raises nothing.
Close(t) ==
    /\ UNCHANGED <<call, files, downloads>>
    /\ task[t].pc = "idle"
    /\ SetStore(CapeClose(Store))
    /\ task' = [task EXCEPT ![t] =
                  [TaskInit EXCEPT !.op = "close", !.out = "ok", !.sess = ctx,
                                   !.pre = Found(ctx)]]
    /\ UNCHANGED <<root_cert, nsess, pending>>

\* The finally of function_context, reached from run: Cape.close(), and
\* run returns or raises what its body did.
RunClose(t) ==
    /\ UNCHANGED <<call, files, downloads>>
    /\ task[t].pc = "run_close"
    /\ SetStore(CapeClose(Store))
    /\ task' = [task EXCEPT ![t].pc = "idle"]
    /\ UNCHANGED <<root_cert, nsess, pending>>

\* The remote peer closes a socket, with a normal or an abnormal close code.
PeerClose(s) ==
    /\ UNCHANGED <<call, files, downloads>>
    /\ wsState[s] = "open"
    /\ \E code \in {"peer_ok", "peer_err"} :
          wsState' = [wsState EXCEPT ![s] = code]
    /\ UNCHANGED <<root_cert, ctx, nsess, websocket, public_key, wsCloseCalls,
                   pending, phase, task>>

TaskStep(t) ==
    \/ Connect(t)
    \/ Run(t)
    \/ Dial(t)
    \/ AuthRecv(t)
    \/ InvokeStart(t)
    \/ InvokeRecv(t)
    \/ Close(t)
    \/ RunClose(t)

\* One caller uses the client, one call at a time.
Next ==
    \/ TaskStep("t1")
    \/ \E s \in Sessions : PeerClose(s)

Spec == Init /\ [][Next]_vars

\* One caller connects, invokes and closes while a second one invokes.
RaceConnect ==
    /\ nsess < MaxRaceSessions
    /\ Connect("t1")

RaceNext ==
    \/ RaceConnect
    \/ Dial("t1")
    \/ AuthRecv("t1")
    \/ Close("t1")
    \/ \E t \in Tasks : InvokeStart(t)
    \/ \E t \in Tasks : InvokeRecv(t)
    \/ \E s \in Sessions : PeerClose(s)

RaceSpec == Init /\ [][RaceNext]_vars

\* A caller's one call of run.
RunOnce(t) ==
    /\ task[t].op = "none"
    /\ Run(t)

\* The invoke inside run.
RunInvoke(t) ==
    /\ task[t].pc = "run_invoke"
    /\ InvokeStart(t)

\* Two callers each call run once on the same client, concurrently.
RunRaceNext ==
    \/ \E t \in Tasks : RunOnce(t)
    \/ \E t \in Tasks : Dial(t)
    \/ \E t \in Tasks : AuthRecv(t)
    \/ \E t \in Tasks : RunInvoke(t)
    \/ \E t \in Tasks : InvokeRecv(t)
    \/ \E t \in Tasks : RunClose(t)

RunRaceSpec == Init /\ [][RunRaceNext]_vars

(***************************************************************************)
(* Cape.key and the key files on disk.                                     *)
(***************************************************************************)
\* Bound: Cape.key is not called once this many downloads were counted.
MaxDownloads == 3

\* The key a file put on disk by the CLI holds, and the key the platform
\* answers a key request with.
DiskKey == <<171>>
PlatformKey == <<205>>

\* The answers of the platform's /v1/user/<username>/key route: a body
\* without attestation_document, a document that parse_attestation or
\* verify_pcrs rejects, a verified document without user_data, one whose
\* user_data holds no key, and one whose user_data holds the key.
KeyReplies == {"no_attestation_document", "bad_attestation", "no_user_data",
               "no_key", "key"}

\* How a key request ended: its outcome, the key returned, the root
\* certificate the client holds afterwards, the number of root certificate
\* downloads and of HTTP requests made.
KeyResult(out, bytes, root, downloaded, requests) ==
    [out |-> out, bytes |-> bytes, root_cert |-> root,
     downloaded |-> downloaded, requests |-> requests]

\* Cape._request_key_with_username: GET the key route, fetch the root
\* certificate if the client holds none, verify the attestation document
\* and take the key out of its user_data.
RequestKeyWithUsername(root, reply, rootOk) ==
    LET fetched == Downloads(root) IN
    IF reply = "no_attestation_document"
    THEN KeyResult("bad_response", <<>>, root, 0, 1)
    ELSE IF fetched > 0 /\ ~rootOk
    THEN KeyResult("download_error", <<>>, root, 0, 2)
    ELSE IF reply = "bad_attestation"
    THEN KeyResult("attestation_error", <<>>, "root", fetched, 1 + fetched)
    ELSE IF reply = "no_user_data"
    THEN KeyResult("type_error", <<>>, "root", fetched, 1 + fetched)
    ELSE IF reply = "no_key"
    THEN KeyResult("no_key_error", <<>>, "root", fetched, 1 + fetched)
    ELSE KeyResult("ok", PlatformKey, "root", fetched, 1 + fetched)

\* The path Cape.key looks at: key_path when given, otherwise the cache of
\* the user name when given, otherwise the CLI user's key file.
KeyPath(has_username, has_key_path) ==
    IF has_key_path THEN "given"
    ELSE IF has_username THEN "user"
    ELSE "default"

\* _persist_cape_key: the key is written to the path.
PersistCapeKey(fs, path, bytes) ==
    [fs EXCEPT ![path] = [exists |-> TRUE, bytes |-> bytes]]

\* Cape.key(username=..., key_path=...) on the files fs: both arguments
\* is a ValueError; a file at the path is read and returned; otherwise a
\* key is requested only when a user name was given, and persisted;
\* otherwise ValueError.
KeyOutcome(fs, root, has_username, has_key_path, reply, rootOk) ==
    LET path == KeyPath(has_username, has_key_path)
        none == KeyResult("value_error", <<>>, root, 0, 0)
        req == RequestKeyWithUsername(root, reply, rootOk)
    IN  IF has_username /\ has_key_path THEN [result |-> none, files |-> fs]
        ELSE IF fs[path].exists
        THEN [result |-> KeyResult("ok", fs[path].bytes, root, 0, 0), files |-> fs]
        ELSE IF has_username
        THEN [result |-> req,
              files |-> IF req.out = "ok"
                        THEN PersistCapeKey(fs, path, req.bytes) ELSE fs]
        ELSE [result |-> none, files |-> fs]

\* Cape.key is called by a caller between its other calls.
Key(t) ==
    /\ task[t].pc = "idle"
    /\ downloads < MaxDownloads
    /\ UNCHANGED <<ctx, nsess, websocket, public_key, wsState, wsCloseCalls,
                   pending, phase, task>>
    /\ \E has_username \in BOOLEAN, has_key_path \in BOOLEAN,
          reply \in KeyReplies, rootOk \in DownloadResults :
          LET k == KeyOutcome(files, root_cert, has_username, has_key_path,
                              reply, rootOk)
              path == KeyPath(has_username, has_key_path)
          IN  /\ files' = k.files
              /\ root_cert' = k.result.root_cert
              /\ downloads' = downloads + k.result.downloaded
              /\ call' = [fn |-> "key", username |-> has_username,
                          key_path |-> has_key_path, path |-> path,
                          before |-> files[path],
                          result |-> k.result]

\* The CLI (cape key) or the user puts a key file at a path.
PlaceKeyFile(path) ==
    /\ ~files[path].exists
    /\ files' = PersistCapeKey(files, path, DiskKey)
    /\ UNCHANGED <<root_cert, ctx, nsess, websocket, public_key, wsState,
                   wsCloseCalls, pending, phase, task, call, downloads>>

\* The first connect of the client.
FirstConnect ==
    /\ nsess = 0
    /\ Connect("t1")

\* One caller connects once, closes and requests keys, one call at a time,
\* while key files are put on disk.
KeyNext ==
    \/ FirstConnect
    \/ Dial("t1")
    \/ AuthRecv("t1")
    \/ Close("t1")
    \/ Key("t1")
    \/ \E path \in Paths : PlaceKeyFile(path)

KeySpec == Init /\ [][KeyNext]_vars

(***************************************************************************)
(* The attestation verifier (src/pycape/attestation.py), its functions     *)
(* called on their own.                                                    *)
(***************************************************************************)
\* Bound: the clock runs over 0..MaxTime.
MaxTime == 2

Times == 0..MaxTime

\* An X.509 certificate: the name it certifies, the name of its issuer, the
\* key that signed it, the public key it certifies, its validity period.
Cert(subject, issuer, signer, key, notBefore, notAfter) ==
    [subject |-> subject, issuer |-> issuer, signer |-> signer, key |-> key,
     notBefore |-> notBefore, notAfter |-> notAfter]

\* The root certificate the caller trusts (the AWS Nitro root).
RootCert == Cert("root", "root", "kroot", "kroot", 0, MaxTime)

\* Certificates a document may deliver in its cabundle: an intermediate
\* issued by the root, one of short validity, a self-signed certificate of
\* the intermediate's name, and another party's self-signed root and the
\* intermediate it issued.
CaCerts ==
    {Cert("int", "root", "kroot", "kint", 0, MaxTime),
     Cert("int", "root", "kroot", "kint", 1, 1),
     Cert("int", "int", "kint", "kint", 0, MaxTime),
     Cert("evil", "evil", "kevil", "kevil", 0, MaxTime),
     Cert("eint", "evil", "kevil", "keint", 0, MaxTime)}

\* The cabundles: no two certificates of one name.
Bundles ==
    {b \in SUBSET CaCerts : \A c, d \in b : c.subject = d.subject => c = d}

\* The leaf certificates: any issuer name, signed by any key.
Leaves ==
    {Cert("leaf", i, k, "kleaf", w[1], w[2]) :
        i \in {"root", "int", "evil", "eint"},
        k \in {"kroot", "kint", "kevil", "keint"},
        w \in {<<0, MaxTime>>, <<1, 1>>}}

SelfSigned(c) == c.issuer = c.subject /\ c.signer = c.key

ValidAt(c, now) == c.notBefore <= now /\ now <= c.notAfter

RECURSIVE ChainVerifies(_, _, _, _)
\* X509StoreContext.verify_certificate: every certificate of the chain is
\* within its validity period at the time of the call; the issuer of each
\* is looked up by name in the store and its key must verify the signature;
\* the chain must end at a self-signed certificate of the store.
ChainVerifies(store, c, now, depth) ==
    IF ~ValidAt(c, now) THEN FALSE
    ELSE IF SelfSigned(c) THEN c \in store
    ELSE /\ depth > 0
         /\ \E i \in store :
               /\ i.subject = c.issuer
               /\ i.key = c.signer
               /\ ChainVerifies(store, i, now, depth - 1)

\* verify_cert_chain(root_cert, cabundle, cert), called at time now: the
\* root certificate and every certificate of the cabundle are added to one
\* X509Store, and the leaf is verified against that store.
VerifyCertChain(root, cabundle, cert, now) ==
    IF ChainVerifies({root} \cup cabundle, cert, now,
                     Cardinality(cabundle) + 1)
    THEN "ok" ELSE "chain_error"

\* The state of the sessions, which a call of the verifier leaves alone.
sessionVars == <<root_cert, ctx, nsess, websocket, public_key, wsState,
                 wsCloseCalls, pending, phase, task, files, downloads>>

\* verify_cert_chain is called.
VerifyCertChainCall ==
    /\ call = NoCall
    /\ UNCHANGED sessionVars
    /\ \E b \in Bundles, c \in Leaves, now \in Times :
          call' = [fn |-> "verify_cert_chain", root_cert |-> RootCert,
                   cabundle |-> b, cert |-> c, now |-> now,
                   out |-> VerifyCertChain(RootCert, b, c, now)]

\* The PCR indexes and the hex measurement values of the calls below.
PcrIndexes == {0, 1}
PcrValues == {"p1", "p2"}

\* The PCR policies: some indexes, each with the values accepted for it.
PcrPolicies ==
    {[given |-> TRUE, idx |-> ix, allowed |-> al] :
        ix \in SUBSET PcrIndexes, al \in SUBSET (PcrIndexes \X PcrValues)}

\* The pcrs of a document: at most one measurement per index.
DocPcrs ==
    {ms \in SUBSET (PcrIndexes \X PcrValues) :
        \A m, n \in ms : m[1] = n[1] => m = n}

\* verify_pcrs is called with a policy and a parsed document.
VerifyPcrsCall ==
    /\ call = NoCall
    /\ UNCHANGED sessionVars
    /\ \E policy \in PcrPolicies, ms \in DocPcrs :
          call' = [fn |-> "verify_pcrs", policy |-> policy, pcrs |-> ms,
                   out |-> IF VerifyPcrs(policy, [pcrs |-> ms])
                           THEN "ok" ELSE "pcr_mismatch"]

\* The keys parse_attestation requires of the decoded document, in the
\* order _check_wellformed_attestation looks for them.
ExpectedKeys == <<"certificate", "cabundle", "public_key">>

\* The signed attestation bytes, by what decoding them gives: whether the
\* CBOR decodes, the keys of the document, whether the COSE signature
\* verifies under the key of the document's certificate, and the values
\* of the fields.
Attestation(decodes, keys, sig_ok, certificate, cabundle) ==
    [decodes |-> decodes, keys |-> keys, sig_ok |-> sig_ok,
     certificate |-> certificate, cabundle |-> cabundle,
     public_key |-> <<171>>, user_data |-> <<205>>]

\* The attestations of the calls below: undecodable bytes, documents that
\* lack keys, and complete documents over a few chains.
Attestations ==
    LET leaf == Cert("leaf", "root", "kroot", "kleaf", 0, MaxTime)
        all == {"certificate", "cabundle", "public_key", "user_data"}
    IN  {Attestation(FALSE, all, TRUE, leaf, {})}
        \cup {Attestation(TRUE, ks, ok, leaf, {}) :
                 ks \in SUBSET all, ok \in BOOLEAN}
        \cup {Attestation(TRUE, ks, ok, c, b) :
                 ks \in {all, all \ {"user_data"}}, ok \in BOOLEAN,
                 c \in {l \in Leaves : <<l.issuer, l.signer>> \in
                           {<<"root", "kroot">>, <<"int", "kint">>,
                            <<"evil", "kevil">>}},
                 b \in {d \in Bundles : Cardinality(d) <= 1}}

\* What parse_attestation raised or returned, and the verification
\* functions it called on the way.
Parsed(out, steps, key, data) ==
    [out |-> out, steps |-> steps, public_key |-> key, user_data |-> data]

\* The first of the expected keys the document lacks (0: none).
FirstMissing(keys) ==
    IF \A i \in 1..Len(ExpectedKeys) : ExpectedKeys[i] \in keys THEN 0
    ELSE CHOOSE i \in 1..Len(ExpectedKeys) :
            /\ ExpectedKeys[i] \notin keys
            /\ \A j \in 1..(i - 1) : ExpectedKeys[j] \in keys

\* A parse_attestation that verifies the signature before it looks for
\* the expected keys (doc["certificate"] raises KeyError when absent).
ParseAttestationBytes_SignatureFirst(attestation, root, now) ==
    IF ~attestation.decodes THEN Parsed("decode_error", <<>>, <<>>, <<>>)
    ELSE IF "certificate" \notin attestation.keys
    THEN Parsed("key_error", <<>>, <<>>, <<>>)
    ELSE IF ~attestation.sig_ok
    THEN Parsed("invalid_signature", <<"signature">>, <<>>, <<>>)
    ELSE IF FirstMissing(attestation.keys) # 0
    THEN Parsed("malformed_attestation", <<"signature", "wellformed">>, <<>>, <<>>)
    ELSE IF VerifyCertChain(root, attestation.cabundle,
                            attestation.certificate, now) # "ok"
    THEN Parsed("chain_error", <<"signature", "wellformed", "chain">>, <<>>, <<>>)
    ELSE Parsed("ok", <<"signature", "wellformed", "chain">>,
                attestation.public_key,
                IF "user_data" \in attestation.keys
                THEN attestation.user_data ELSE <<>>)

\* parse_attestation(attestation, root_cert) of src/pycape/attestation.py,
\* called at time now: decode, _check_wellformed_attestation,
\* verify_attestation_signature, verify_cert_chain, then the public key and
\* the optional user_data are returned.
ParseAttestationBytes(attestation, root, now) ==
    IF ~attestation.decodes THEN Parsed("decode_error", <<>>, <<>>, <<>>)
    ELSE IF FirstMissing(attestation.keys) # 0
    THEN Parsed("malformed_attestation", <<"wellformed">>, <<>>, <<>>)
    ELSE IF ~attestation.sig_ok
    THEN Parsed("invalid_signature", <<"wellformed", "signature">>, <<>>, <<>>)
    ELSE IF VerifyCertChain(root, attestation.cabundle,
                            attestation.certificate, now) # "ok"
    THEN Parsed("chain_error", <<"wellformed", "signature", "chain">>, <<>>, <<>>)
    ELSE Parsed("ok", <<"wellformed", "signature", "chain">>,
                attestation.public_key,
                IF "user_data" \in attestation.keys
                THEN attestation.user_data ELSE <<>>)

\* parse_attestation is called.
ParseAttestationCall ==
    /\ call = NoCall
    /\ UNCHANGED sessionVars
    /\ \E a \in Attestations, now \in Times :
          call' = [fn |-> "parse_attestation", attestation |-> a,
                   root_cert |-> RootCert, now |-> now,
                   result |-> ParseAttestationBytes(a, RootCert, now),
                   again |-> FALSE, later |-> now,
                   result2 |-> ParseAttestationBytes(a, RootCert, now)]

\* parse_attestation is called once more on the same bytes with the same
\* root certificate, at the same or a later time.
ParseAttestationAgain ==
    /\ call.fn = "parse_attestation"
    /\ ~call.again
    /\ UNCHANGED sessionVars
    /\ \E later \in {x \in Times : x >= call.now} :
          call' = [call EXCEPT
                     !.again = TRUE,
                     !.later = later,
                     !.result2 = ParseAttestationBytes(call.attestation,
                                                       call.root_cert, later)]

\* _parse_wss_response is called on a response (as authenticate and
\* invoke call it on what recv returned).
ParseWssResponseCall ==
    /\ call = NoCall
    /\ UNCHANGED sessionVars
    /\ \E r \in Responses :
          call' = [fn |-> "_parse_wss_response", response |-> r,
                   result |-> ParseWssResult(r)]

\* Bound: the number of positional arguments of an invoke.
MaxArgs == 2

\* The values passed to invoke: two byte strings and a value that is not
\* of type bytes.
Values == {[type |-> "bytes", bytes |-> <<171>>],
           [type |-> "bytes", bytes |-> <<205>>],
           [type |-> "int", bytes |-> <<>>]}

\* The positional arguments of an invoke.
ArgLists == UNION {[1..n -> Values] : n \in 0..MaxArgs}

\* The keyword arguments of an invoke, in the order they were passed.
Kwargs ==
    {<<>>}
    \cup {<<[name |-> k, value |-> v]>> : k \in {"x", "y"}, v \in Values}
    \cup {<<[name |-> "x", value |-> v], [name |-> "y", value |-> w]>> :
             v \in Values, w \in Values}

\* _maybe_get_single_input: the one positional argument; for one keyword
\* argument kwargs.items()[0][1], which raises TypeError (a dict_items view
\* cannot be subscripted); otherwise None.
MaybeGetSingleInput(args, kwargs) ==
    IF Len(args) = 1 /\ Len(kwargs) = 0
    THEN [out |-> "value", value |-> args[1]]
    ELSE IF Len(args) = 0 /\ Len(kwargs) = 1
    THEN [out |-> "type_error", value |-> args]
    ELSE [out |-> "none", value |-> args]

\* What _request_invocation hands to _EnclaveContext.invoke, or the error
\* it raises before: raw is the byte string sent as it is, serdio the
\* serdio serialization of the arguments.
Inputs(out, kind, bytes, args, kwargs) ==
    [out |-> out, kind |-> kind, bytes |-> bytes, args |-> args,
     kwargs |-> kwargs]

\* Cape._request_invocation up to its call of _EnclaveContext.invoke.
RequestInvocation(has_hooks, use_serdio, args, kwargs) ==
    LET single == MaybeGetSingleInput(args, kwargs)
        failed(e) == Inputs(e, "none", <<>>, <<>>, <<>>)
    IN  IF single.out = "type_error" THEN failed("type_error")
        ELSE IF single.out = "none" /\ ~use_serdio THEN failed("value_error")
        ELSE IF use_serdio \/ has_hooks
        THEN Inputs("sent", "serdio", <<>>, args, kwargs)
        ELSE IF single.value.type # "bytes" THEN failed("type_error")
        ELSE Inputs("sent", "raw", single.value.bytes, <<>>, <<>>)

\* _request_invocation is called (by Cape.invoke or Cape.run).
RequestInvocationCall ==
    /\ call = NoCall
    /\ UNCHANGED sessionVars
    /\ \E has_hooks \in BOOLEAN, use_serdio \in BOOLEAN,
          args \in ArgLists, kwargs \in Kwargs :
          call' = [fn |-> "_request_invocation", has_hooks |-> has_hooks,
                   use_serdio |-> use_serdio, args |-> args, kwargs |-> kwargs,
                   result |-> RequestInvocation(has_hooks, use_serdio,
                                                args, kwargs)]

(***************************************************************************)
(* Serdio (src/serdio/serdio/serde.py) over MessagePack.                   *)
(***************************************************************************)
\* Bound: the number of items of a collection.
MaxItems == 2

\* A Python value, and likewise a MessagePack object: its type t, a number
\* n, a text s and its items.  An int is a power of two, 2^n, held as n; a
\* dict holds its items as entries <<key, value>>; an ext object holds its
\* type code in n and its payload as its one item; a failed call gives an
\* "error" with the name of the exception in s.
PyValue(t, n, s, items) == [t |-> t, n |-> n, s |-> s, items |-> items]

Raised(e) == PyValue("error", 0, e, <<>>)

\* The scalars: "foo", 8, 2^64, 2.5, True and b"foo".
Scalars ==
    {PyValue("str", 0, "foo", <<>>), PyValue("int", 3, "", <<>>),
     PyValue("int", 64, "", <<>>), PyValue("float", 0, "2.5", <<>>),
     PyValue("bool", 1, "", <<>>), PyValue("bytes", 0, "foo", <<>>)}

\* The sequences of at most MaxItems members of a set.
SeqsOf(S) == UNION {[1..n -> S] : n \in 0..MaxItems}

\* The lists, tuples, sets, frozensets (distinct members, in their
\* iteration order) and dicts (at most one entry) of scalars.
Flat ==
    {PyValue(k, 0, "", items) : k \in {"list", "tuple"}, items \in SeqsOf(Scalars)}
    \cup {PyValue(k, 0, "", items) :
             k \in {"set", "frozenset"},
             items \in {q \in SeqsOf(Scalars) :
                           \A i, j \in 1..Len(q) : q[i] = q[j] => i = j}}
    \cup {PyValue("dict", 0, "", <<>>)}
    \cup {PyValue("dict", 0, "", <<PyValue("entry", 0, "", <<key, v>>)>>) :
             key \in Scalars \cup {PyValue("tuple", 0, "", <<PyValue("str", 0, "foo", <<>>)>>)},
             v \in Scalars}

\* The values Python can hash (members of sets, keys of dicts).
Hashable(v) == v.t \notin {"list", "set", "dict"}

\* Collections of one collection.
Nested ==
    {PyValue(k, 0, "", <<c>>) : k \in {"list", "tuple"}, c \in Flat}
    \cup {PyValue(k, 0, "", <<c>>) :
             k \in {"set", "frozenset"}, c \in {f \in Flat : Hashable(f)}}
    \cup {PyValue("dict", 0, "", <<PyValue("entry", 0, "", <<PyValue("str", 0, "foo", <<>>), c>>)>>) :
             c \in Flat}

PyValues == Scalars \cup Flat \cup Nested

\* The first error among the items, or none.
FirstError(items) ==
    IF \E i \in 1..Len(items) : items[i].t = "error"
    THEN items[CHOOSE i \in 1..Len(items) :
                  /\ items[i].t = "error"
                  /\ \A j \in 1..(i - 1) : items[j].t # "error"]
    ELSE PyValue("none", 0, "", <<>>)

\* _MsgpackExtType: the MessagePack ext type codes of tuple, set, frozenset.
ExtCode(t) == CASE t = "tuple" -> 2 [] t = "set" -> 3 [] t = "frozenset" -> 4

RECURSIVE Packb(_)
\* msgpack.packb(x, default=_default_encoder, strict_types=True): an int
\* must fit 64 bits (OverflowError otherwise); str, float, bool, bytes,
\* list and dict are MessagePack types; a tuple, set or frozenset goes to
\* _default_encoder, which wraps packb(list(x)) in an ExtType of its code.
Packb(x) ==
    LET packed == [i \in 1..Len(x.items) |-> Packb(x.items[i])]
        err == FirstError(packed)
    IN  CASE x.t = "int" -> IF x.n < 64 THEN x ELSE Raised("OverflowError")
          [] x.t = "bytes" -> PyValue("bin", 0, x.s, <<>>)
          [] x.t \in {"str", "float", "bool"} -> x
          [] x.t \in {"list", "dict", "entry"} ->
               IF err.t = "error" THEN err
               ELSE PyValue(CASE x.t = "list" -> "array" [] x.t = "dict" -> "map"
                              [] OTHER -> "entry", 0, "", packed)
          [] x.t \in {"tuple", "set", "frozenset"} ->
               IF err.t = "error" THEN err
               ELSE PyValue("ext", ExtCode(x.t), "",
                            <<PyValue("array", 0, "", packed)>>)

\* _msgpack_ext_unpack(code, data), data already unpacked to a list: the
\* tuple, set or frozenset of its items, or an ExtType for another code.
MsgpackExtUnpack(code, data) ==
    PyValue(CASE code = 2 -> "tuple" [] code = 3 -> "set"
              [] code = 4 -> "frozenset" [] OTHER -> "ExtType",
            0, "", data.items)

RECURSIVE Unpackb(_)
\* msgpack.unpackb(data, ext_hook=_msgpack_ext_unpack): the inverse of
\* packb on the MessagePack types; the keys of a map must be str or bytes
\* (strict_map_key, ValueError otherwise); an ext goes to the ext hook.
Unpackb(w) ==
    LET unpacked == [i \in 1..Len(w.items) |-> Unpackb(w.items[i])]
        err == FirstError(unpacked)
    IN  CASE w.t \in {"int", "str", "float", "bool"} -> w
          [] w.t = "bin" -> PyValue("bytes", 0, w.s, <<>>)
          [] w.t = "array" ->
               IF err.t = "error" THEN err ELSE PyValue("list", 0, "", unpacked)
          [] w.t = "entry" ->
               IF err.t = "error" THEN err
               ELSE IF unpacked[1].t \notin {"str", "bytes"} THEN Raised("ValueError")
               ELSE PyValue("entry", 0, "", unpacked)
          [] w.t = "map" ->
               IF err.t = "error" THEN err ELSE PyValue("dict", 0, "", unpacked)
          [] w.t = "ext" ->
               IF err.t = "error" THEN err ELSE MsgpackExtUnpack(w.n, unpacked[1])

\* serialize(x): the dict {"_serdio_args_": (x,)} is packed.
Serialize(x) ==
    Packb(PyValue("dict", 0, "",
                  <<PyValue("entry", 0, "",
                            <<PyValue("str", 0, "_serdio_args_", <<>>),
                              PyValue("tuple", 0, "", <<x>>)>>)>>))

\* deserialize(serdio_bytes): unpack, take the args, and return the one
\* argument when there is one, the tuple of arguments otherwise.
Deserialize(w) ==
    LET unpacked == Unpackb(w)
        args == unpacked.items[1].items[2]
    IN  IF unpacked.t = "error" THEN unpacked
        ELSE IF Len(args.items) = 1 THEN args.items[1]
        ELSE args

\* A value is serialized and the bytes are deserialized.
SerdeCall ==
    /\ call = NoCall
    /\ UNCHANGED sessionVars
    /\ \E x \in PyValues :
          call' = [fn |-> "serde", x |-> x, serialized |-> Serialize(x),
                   result |-> IF Serialize(x).t = "error" THEN Serialize(x)
                              ELSE Deserialize(Serialize(x))]

(***************************************************************************)
(* The LLM client (src/pycape/llms/llms.py).                               *)
(***************************************************************************)
\* The key a reply may carry next to, or in place of, an attestation
\* document (the keys of the documents are the session numbers).
PlainKey == 2

\* The replies to the nonce message of the LLM client: their msg_type,
\* whether data holds an attestation_document and which, whether data
\* holds a public_key.
LlmReplies(n) ==
    [msg_type : {"attestation", "stream_chunk"}, has_doc : {TRUE},
     doc : Docs(1, n), has_key : {FALSE}]
    \cup [msg_type : {"attestation"}, has_doc : {FALSE},
          doc : {NoDoc(1, n)}, has_key : BOOLEAN]

\* _Context.bootstrap of the LLM client after the reply arrived: how it
\* ends and the value it has stored in _public_key by then.  With an
\* attestation_document the document is verified as in the function
\* client; without one, data["public_key"] is stored as it arrived.
LlmBootstrap(reply, nonce, policy) ==
    IF reply.msg_type # "attestation"
    THEN [out |-> "unexpected_message", key |-> Null]
    ELSE IF reply.has_doc
    THEN BootstrapOutcome(Response("json", FALSE, <<>>, "object", TRUE,
                                   <<"q", "w", "=", "=">>, <<>>),
                          reply.doc, nonce, policy)
    ELSE IF reply.has_key THEN [out |-> "ok", key |-> PlainKey]
    ELSE [out |-> "key_error", key |-> Null]

\* Cape.completions after _connect: the request is sealed under
\* ctx.public_key and sent (Null: _connect raised, nothing is sent).
Completions(b) == IF b.out = "ok" THEN b.key ELSE Null

\* completions is called on the LLM client: it connects, bootstraps and
\* sends its request.
LlmCompletionsCall ==
    /\ call = NoCall
    /\ UNCHANGED sessionVars
    /\ \E n \in Nonces, policy \in Policies :
       \E reply \in LlmReplies(n) :
          call' = [fn |-> "completions", nonce |-> n, policy |-> policy,
                   reply |-> reply,
                   bootstrap |-> LlmBootstrap(reply, n, policy),
                   sealed |-> Completions(LlmBootstrap(reply, n, policy))]

VerifierNext ==
    \/ VerifyCertChainCall
    \/ VerifyPcrsCall
    \/ ParseAttestationCall
    \/ ParseAttestationAgain
    \/ ParseWssResponseCall
    \/ RequestInvocationCall
    \/ SerdeCall
    \/ LlmCompletionsCall

VerifierSpec == Init /\ [][VerifierNext]_vars

(***************************************************************************)
(* Properties.                                                             *)
(***************************************************************************)
\* The caller's call has ended (run: its finally has run too).
Finished(t, ops) == task[t].pc = "idle" /\ task[t].op \in ops

\* The tag of the caller's own invoke request.
OwnRequest(t) == [from |-> t, kind |-> "invoke", gen |-> Null]

\* C1: a bootstrap that fails after the websocket was opened closes the
\* websocket before the error reaches the caller: no session whose
\* bootstrap failed has an open websocket.
C1_FailedBootstrapClosesSocket ==
    \A s \in Sessions : phase[s] = "Failed" => wsState[s] # "open"

\* C2: an invoke on a client with no session, or on a session that was
\* never connected or has been closed, ends at once with an error and
\* without a send or recv call on any websocket.
C2_InvokeWithoutSessionDoesNoIO ==
    \A t \in Tasks :
        (/\ task[t].op \in {"invoke", "run"}
         /\ task[t].pre \in {"NoSession", "Unconnected", "Closed"})
        => /\ task[t].pc \in {"idle", "run_close"}
           /\ task[t].out \notin {"none", "ok"}
           /\ ~task[t].io

\* An invoke on a closed session has failed, with no call on a socket.
C2_Witness ==
    \E t \in Tasks :
        /\ Finished(t, {"invoke"})
        /\ task[t].pre = "Closed"
        /\ task[t].out = "encrypt_error"
        /\ task[t].sess # Null

\* C3 as stated: whenever run has returned or raised, the client holds no
\* session and the websocket of the session run created is closed.
C3_RunAlwaysEndsClosed ==
    \A t \in Tasks :
        Finished(t, {"run"})
        => /\ ctx = Null
           /\ task[t].sess # Null => wsState[task[t].sess] \in {"unopened", "closed"}

\* C3 as amended: whenever run has returned or raised after its serde_hooks
\* were accepted (so it entered function_context), the client holds no
\* session and the websocket of the session run created is closed.
C3_RunEndsClosedOnceEntered ==
    \A t \in Tasks :
        (Finished(t, {"run"}) /\ task[t].out # "hooks_error")
        => /\ ctx = Null
           /\ task[t].sess # Null => wsState[task[t].sess] \in {"unopened", "closed"}

\* A run whose invoke raised the remote error has closed its connection.
C3_Witness ==
    \E t \in Tasks :
        /\ Finished(t, {"run"})
        /\ task[t].pre = "Bootstrapped"
        /\ task[t].out = "remote_error"
        /\ ctx = Null
        /\ wsState[task[t].sess] = "closed"

\* A step of Cape.close by caller t, called directly or from run's finally.
CloseStep(t) ==
    \/ task[t].pc = "idle" /\ task'[t].op = "close" /\ task'[t] # task[t]
    \/ task[t].pc = "run_close" /\ task'[t].pc = "idle"

\* C4: close never raises and can be called in any state; after it the
\* client holds no session and the session's websocket handle and public
\* key are cleared; a close of a session that is already closed, or with no
\* session, changes no session state and closes no websocket, so that no
\* websocket is ever closed twice.
C4_CloseClearsAndIsIdempotent ==
    [][\A t \in Tasks :
          CloseStep(t)
          => /\ task'[t].pc = "idle"
             /\ task[t].pc = "idle" => task'[t].out = "ok"
             /\ ctx' = Null
             /\ ctx # Null => websocket'[ctx] = Null /\ public_key'[ctx] = Null
             /\ \A s \in Sessions : wsCloseCalls'[s] <= 1
             /\ (ctx = Null \/ Found(ctx) = "Closed")
                => /\ websocket' = websocket
                   /\ public_key' = public_key
                   /\ wsState' = wsState
                   /\ wsCloseCalls' = wsCloseCalls]_vars

\* A second close of a session whose websocket was closed by the first.
C4_Witness ==
    \E t \in Tasks :
        /\ Finished(t, {"close"})
        /\ task[t].pre = "Closed"
        /\ task[t].sess # Null
        /\ wsCloseCalls[task[t].sess] = 1
        /\ ctx = Null

\* C5: a session holds a public key only if every verification step of its
\* bootstrap succeeded: after a failed bootstrap _public_key is unset.
C5_KeyOnlyAfterFullVerification ==
    \A s \in Sessions : phase[s] = "Failed" => public_key[s] = Null

\* The enclave supplied the func_checksum the function reference expects,
\* letter case aside.
ChecksumSupplied(cs, ud) ==
    /\ ud.present
    /\ ud.has_checksum
    /\ Lower(cs.text) = Hex(B64Decode(ud.func_checksum))

\* C6: when the function reference has a checksum and the attestation does
\* not supply a matching func_checksum (no user_data, no func_checksum in
\* it, or another value), connect closes the session's websocket and then
\* raises the checksum error.
C6_ChecksumFailureClosesThenRaises ==
    \A t \in Tasks :
        (/\ Finished(t, {"connect"})
         /\ task[t].checksum.given
         /\ ~ChecksumSupplied(task[t].checksum, task[t].ud))
        => /\ task[t].out = "checksum_error"
           /\ wsState[task[t].sess] = "closed"
           /\ websocket[task[t].sess] = Null

\* C7: an expected checksum that differs from the received hex digest only
\* in letter case is accepted, and connect succeeds.
C7_ChecksumComparedIgnoringCase ==
    \A t \in Tasks :
        (/\ Finished(t, {"connect"})
         /\ task[t].checksum.given
         /\ ChecksumSupplied(task[t].checksum, task[t].ud))
        => task[t].out = "ok"

\* C8: an invoke that ends because the peer closed the websocket, while
\* sending or while awaiting the response, with a normal or an abnormal
\* close code, raises the transport-closed RuntimeError.
C8_PeerCloseIsTransportClosed ==
    \A t \in Tasks :
        (/\ task[t].op \in {"invoke", "run"}
         /\ task[t].pre # "none"
         /\ task[t].out \in {"transport_closed", "conn_closed_ok", "conn_closed_error"})
        => task[t].out = "transport_closed"

\* A step in which caller t's invoke ends.
InvokeEnds(t) ==
    /\ task[t].pc \in {"idle", "run_invoke", "inv_recv"}
    /\ task'[t] # task[t]
    /\ task'[t].op \in {"invoke", "run"}
    /\ task'[t].pre # "none"
    /\ task'[t].pc \in {"idle", "run_close"}

\* C9: an invoke that fails leaves every session's websocket handle and
\* public key as they were, unless it fails as transport-closed, in which
\* case the session's websocket is closed and its key cleared; after a
\* remote error or a malformed response a further invoke can be sent.
C9_OnlyTransportClosedClosesSession ==
    [][\A t \in Tasks :
          (InvokeEnds(t) /\ task'[t].out # "ok")
          => /\ task'[t].out = "transport_closed"
                => /\ websocket'[task'[t].sess] = Null
                   /\ public_key'[task'[t].sess] = Null
                   /\ wsState'[task'[t].sess] = "closed"
             /\ task'[t].out # "transport_closed"
                => /\ websocket' = websocket
                   /\ public_key' = public_key
                   /\ wsState' = wsState
                   /\ wsCloseCalls' = wsCloseCalls
             /\ task'[t].out \in {"remote_error", "malformed_response"}
                => InvokeSendOutcome(Store, task[t].sess)' = "sent"]_vars

\* An invoke has failed with the remote error and its session is still
\* connected: handle, key and open websocket.
C9_Witness ==
    \E t \in Tasks :
        /\ Finished(t, {"invoke"})
        /\ task[t].out = "remote_error"
        /\ websocket[task[t].sess] # Null
        /\ public_key[task[t].sess] # Null
        /\ wsState[task[t].sess] = "open"

\* C10 as stated: two invoke calls on one session never both await a
\* response (the second request is not sent before the first response was
\* received), and each call returns the response to its own request.
C10_InvokesSerialized ==
    /\ \A t, u \in Tasks :
          (t # u /\ task[t].pc = "inv_recv" /\ task[u].pc = "inv_recv")
          => task[t].sess # task[u].sess
    /\ \A t \in Tasks :
          (Finished(t, {"invoke"}) /\ task[t].out = "ok")
          => task[t].res = OwnRequest(t)

\* C10 as amended: the client does not serialize invoke calls; an invoke
\* call that no other invoke call on its session overlaps returns the
\* response to its own request.
C10_UnoverlappedInvokeGetsOwnResponse ==
    \A t \in Tasks :
        (Finished(t, {"invoke"}) /\ task[t].out = "ok" /\ ~task[t].overlap)
        => task[t].res = OwnRequest(t)

\* Both callers have invoked on one session, one after the other, and each
\* has its own response.
C10_Witness ==
    \E t, u \in Tasks :
        /\ t # u
        /\ Finished(t, {"invoke"}) /\ Finished(u, {"invoke"})
        /\ task[t].out = "ok" /\ task[u].out = "ok"
        /\ task[t].sess = task[u].sess
        /\ ~task[t].overlap /\ ~task[u].overlap
        /\ task[t].res = OwnRequest(t)

\* The order of the lifecycle events of a session; a failed dial or
\* bootstrap leaves the session where only close acts on it.
Rank(ph) ==
    CASE ph = "Absent" -> 0
      [] ph = "Dialing" -> 1
      [] ph = "Authenticating" -> 2
      [] ph = "Bootstrapped" -> 3
      [] ph \in {"Unconnected", "Failed"} -> 4
      [] ph = "Closed" -> 5

\* C11: a session only moves forward through its lifecycle and Closed is
\* terminal: no step takes a session back, and once a session has been
\* bootstrapped or closed no step stores a new websocket in it, opens its
\* websocket again, or (once closed) gives it a public key again.
C11_SessionMovesForwardOnly ==
    [][\A s \in Sessions :
          /\ Rank(phase'[s]) >= Rank(phase[s])
          /\ phase[s] \in {"Bootstrapped", "Closed"}
             => /\ phase'[s] \in {phase[s], "Closed"}
                /\ websocket'[s] \in {websocket[s], Null}
                /\ wsState[s] # "open" => wsState'[s] # "open"
          /\ phase[s] = "Closed"
             => /\ websocket'[s] = Null
                /\ public_key'[s] = Null
                /\ wsState'[s] = wsState[s]]_vars

\* A session was bootstrapped and closed, and a later connect has
\* bootstrapped another session while the first stayed closed.
C11_Witness ==
    \E s, r \in Sessions :
        /\ s # r
        /\ phase[s] = "Closed" /\ wsCloseCalls[s] = 1
        /\ phase[r] = "Bootstrapped" /\ ctx = r
        /\ websocket[s] = Null /\ public_key[s] = Null

Handshakes(queue) == {i \in 1..Len(queue) : queue[i].kind = "nonce"}

\* C13: every bootstrap attempt sends the nonce generated in that attempt,
\* in one handshake request only (sent when its dial returns), and passes
\* that same nonce to the attestation check; no attempt sends or checks a
\* nonce generated in another attempt.
C13_NonceBoundToOneAttempt ==
    /\ [](/\ \A s \in Sessions :
               /\ Cardinality(Handshakes(pending[s])) <= 1
               /\ \A i \in Handshakes(pending[s]) : pending[s][i].gen = s
           /\ \A t \in Tasks :
               /\ task[t].gen # Null => task[t].gen = task[t].sess
               /\ task[t].checked # Null
                  => task[t].checked = task[t].sess /\ task[t].gen = task[t].sess)
    /\ [][\A s \in Sessions :
            Handshakes(pending'[s]) \ Handshakes(pending[s]) # {}
            => /\ phase[s] = "Dialing"
               /\ phase'[s] = "Authenticating"
               /\ Handshakes(pending[s]) = {}]_vars

\* The second bootstrap attempt of a client has succeeded, checking the
\* attestation against the nonce generated in that attempt.
C13_Witness ==
    \E t \in Tasks :
        /\ Finished(t, {"connect"})
        /\ task[t].out = "ok"
        /\ task[t].sess = 2
        /\ task[t].checked = 2
        /\ phase[1] # "Absent"

\* C14: the attestation checks of a bootstrap run in the order parse,
\* signature, certificate chain, PCR policy, nonce, and the first failing
\* check stops the sequence: a document that passes parse, signature and
\* chain but does not meet the PCR policy fails with the PCR error (whatever
\* nonce it echoes), and a bootstrap that failed has stored no public key
\* and handed over no user data.
C14_ChecksInOrderAllOrNothing ==
    \A t \in Tasks :
        Finished(t, {"connect"})
        => /\ task[t].pcrBad => task[t].out = "pcr_mismatch"
           /\ (task[t].sess # Null /\ phase[task[t].sess] = "Failed")
              => /\ public_key[task[t].sess] = Null
                 /\ task[t].ud = NoUserData

RECURSIVE IssuedUnder(_, _, _, _)
\* The issuer chain of certificate c leads, through certificates of the
\* bundle, to the root: each link names its issuer and is signed by it.
IssuedUnder(root, bundle, c, depth) ==
    \E i \in {root} \cup bundle :
        /\ i.subject = c.issuer
        /\ i.key = c.signer
        /\ \/ i = root
           \/ depth > 0 /\ IssuedUnder(root, bundle, i, depth - 1)

\* C15: verify_cert_chain accepts a leaf only if its issuer chain leads to
\* the root certificate the caller supplied: a leaf whose chain ends at
\* another self-signed certificate, one delivered in the cabundle included,
\* or lacks an intermediate, is rejected.
C15_ChainLeadsToSuppliedRoot ==
    (call.fn = "verify_cert_chain" /\ call.out = "ok")
    => IssuedUnder(call.root_cert, call.cabundle, call.cert,
                   Cardinality(call.cabundle))

\* The document's measurement at index i: the set holding it, or empty.
Measured(ms, i) == {m[2] : m \in {n \in ms : n[1] = i}}

\* The values a policy accepts at index i.
Accepted(policy, i) == {m[2] : m \in {n \in policy.allowed : n[1] = i}}

\* C16: verify_pcrs rejects when some index of the policy has no
\* measurement in the document or a measurement outside the accepted
\* values, and accepts otherwise; measurements at indexes the policy does
\* not name play no part.
C16_VerifyPcrsDecidesByPolicy ==
    call.fn = "verify_pcrs"
    => LET missing == {i \in call.policy.idx : Measured(call.pcrs, i) = {}}
           outside == {i \in call.policy.idx :
                          Measured(call.pcrs, i) \ Accepted(call.policy, i) # {}}
       IN  /\ (missing # {} \/ outside # {}) => call.out = "pcr_mismatch"
           /\ (missing = {} /\ outside = {}) => call.out = "ok"

\* A policy on index 0 was met by a document whose measurement at index 1,
\* which the policy does not name, is one the policy lists for no index.
C16_Witness ==
    /\ call.fn = "verify_pcrs"
    /\ call.out = "ok"
    /\ call.policy.idx = {0}
    /\ call.policy.allowed = {<<0, "p1">>}
    /\ call.pcrs = {<<0, "p1">>, <<1, "p2">>}

\* C17: parse_attestation fails with the malformed-attestation error
\* whenever the decoded document lacks certificate, cabundle or public_key,
\* and has then called neither the signature verification nor the
\* certificate chain verification.
C17_MissingKeyFailsBeforeVerification ==
    (/\ call.fn = "parse_attestation"
     /\ call.attestation.decodes
     /\ \E i \in 1..Len(ExpectedKeys) : ExpectedKeys[i] \notin call.attestation.keys)
    => /\ call.result.out = "malformed_attestation"
       /\ \A i \in 1..Len(call.result.steps) :
             call.result.steps[i] \notin {"signature", "chain"}

\* A document with a certificate whose signature does not verify, but
\* without public_key, was rejected as malformed.
C17_Witness ==
    /\ call.fn = "parse_attestation"
    /\ call.attestation.decodes
    /\ call.attestation.keys = {"certificate", "cabundle", "user_data"}
    /\ ~call.attestation.sig_ok
    /\ call.result.out = "malformed_attestation"
    /\ call.result.steps = <<"wellformed">>

\* C20: two calls of parse_attestation with the same attestation bytes and
\* root certificate have the same outcome (the same public key and user
\* data, or the same failure), whatever the times of the calls.
C20_ParseAttestationDeterministic ==
    (call.fn = "parse_attestation" /\ call.again)
    => /\ call.result2.out = call.result.out
       /\ call.result2.public_key = call.result.public_key
       /\ call.result2.user_data = call.result.user_data

\* The response carries the bytes b as its payload, in one of the two
\* framings: a binary frame holding b, or a JSON message wrapping the
\* base64 text of b.
Carries(response, b) ==
    \/ response.framing = "binary" /\ response.raw = b
    \/ /\ response.framing = "json"
       /\ ~response.has_error
       /\ response.message = "object"
       /\ response.has_inner
       /\ response.inner = B64Encode(b)

\* C18: the handshake accepts the attestation response in either framing:
\* from a JSON message wrapping the base64 attestation bytes and from a
\* binary frame holding the bytes, the same bytes are handed on to the
\* attestation verification.
C18_EitherFramingAccepted ==
    call.fn = "_parse_wss_response"
    => \A b \in Blobs :
          Carries(call.response, b)
          => call.result.out = "ok" /\ call.result.bytes = b

\* C19: for every websocket response that is a JSON object
\* _parse_wss_response gives: with an error field, an exception whose
\* message is that error string unchanged; otherwise, with message.message
\* present, its base64 decoding; otherwise a RuntimeError for a malformed
\* response.
C19_ParseWssResponseCases ==
    (call.fn = "_parse_wss_response" /\ call.response.framing = "json")
    => LET r == call.response
       IN  IF r.has_error
           THEN call.result.out = "remote_error" /\ call.result.text = r.error
           ELSE IF r.message = "object" /\ r.has_inner
           THEN /\ call.result.out = "ok"
                /\ B64Encode(call.result.bytes) = r.inner
           ELSE call.result.out = "malformed_response"

\* C21: every request an invoke sends is sealed under the public key of the
\* attestation document that was received and verified (parse, signature,
\* chain, nonce and PCR policy) on the connection the request is sent on: the
\* session the invoke found was bootstrapped, and the key is that
\* connection's, never the key of another session.
C21_InvokeSealedUnderVerifiedKey ==
    \A t \in Tasks :
        task[t].key # Null
        => /\ task[t].key = task[t].sess
           /\ task[t].pre = "Bootstrapped"

\* C22: Cape.key(key_path=p) returns the bytes of the file at p without any
\* network request when the file exists; otherwise it requests a Cape key
\* from the platform and, when the platform supplies one, writes it to p and
\* returns it.
C22_KeyReadsFileOrRequestsAndPersists ==
    (call.fn = "key" /\ call.key_path /\ ~call.username)
    => IF call.before.exists
       THEN /\ call.result.out = "ok"
            /\ call.result.bytes = call.before.bytes
            /\ call.result.requests = 0
       ELSE /\ call.result.requests >= 1
            /\ call.result.out = "ok"
               => /\ files[call.path] = [exists |-> TRUE,
                                         bytes |-> call.result.bytes]
                  /\ call.result.bytes = PlatformKey

\* C23: with use_serdio=False (and no serde hooks) an invoke with a single
\* keyword argument holding a byte string sends that byte string as the
\* plaintext, as an invoke with it as the single positional argument does.
C23_SingleKeywordSentLikePositional ==
    (/\ call.fn = "_request_invocation"
     /\ ~call.use_serdio /\ ~call.has_hooks
     /\ Len(call.args) + Len(call.kwargs) = 1)
    => LET v == IF Len(call.args) = 1 THEN call.args[1]
                ELSE call.kwargs[1].value
       IN  v.type = "bytes"
           => /\ call.result.out = "sent"
              /\ call.result.kind = "raw"
              /\ call.result.bytes = v.bytes

\* C24: deserialize(serialize(x)) gives x back, with the same types (a
\* tuple as a tuple, a set as a set, a frozenset as a frozenset), for every
\* value x built from str, int, float, bool, bytes, list, dict, tuple, set
\* and frozenset.
C24_SerdeRoundTrip ==
    call.fn = "serde" => call.result = call.x

\* A step in which a connect starts or a key is requested from the platform.
FetchingStep ==
    \/ \E t \in Tasks : task[t].pc = "idle" /\ task'[t].pc = "dial"
    \/ call'.fn = "key" /\ call'.result.requests >= 1

\* C25: the client fetches the root certificate lazily and at most once:
\* none is held and none was downloaded before the first connect or key
\* request, only a connect or a key request downloads it, and once it is
\* stored every later step keeps it and downloads nothing.
C25_RootCertFetchedLazilyOnce ==
    /\ [](/\ downloads <= 1
          /\ root_cert = None => downloads = 0)
    /\ [][/\ downloads' # downloads => FetchingStep
          /\ root_cert # None
             => downloads' = downloads /\ root_cert' = root_cert]_vars

\* After a connect, a key was requested from the platform and verified
\* with the stored root certificate, without a download.
C25_Witness ==
    /\ nsess = 1
    /\ downloads = 1
    /\ call.fn = "key"
    /\ call.result.out = "ok"
    /\ call.result.requests = 1
    /\ call.result.downloaded = 0

\* C26: when the last call on the client was a connect that failed, for
\* whatever reason, an invoke that follows it sends nothing to the enclave:
\* it ends at once, no request is put on any connection and nothing is
\* sealed.
C26_InvokeAfterFailedConnectSendsNothing ==
    [][\A t \in Tasks :
          (/\ task[t].pc = "idle"
           /\ task[t].op = "connect"
           /\ task[t].out # "ok"
           /\ task'[t].op = "invoke")
          => /\ task'[t].pc = "idle"
             /\ task'[t].key = Null
             /\ pending' = pending]_vars

\* C27: the client never has more than one open websocket: every websocket
\* it opened is the one of its current session or is no longer open (a
\* connect made while a connection is open closes that connection).
C27_OnlyCurrentWebsocketOpen ==
    \A s \in Sessions : wsState[s] = "open" => ctx = s

\* C28: two run calls executing concurrently on one client do not
\* interfere: the invoke of each is sent on the connection that call
\* bootstrapped, and the close of each closes no session but the one that
\* call created.
C28_ConcurrentRunsDoNotInterfere ==
    /\ [](\A t \in Tasks :
            (task[t].op = "run" /\ task[t].key # Null)
            => task[t].sess = task[t].own)
    /\ [][\A t \in Tasks :
            (task[t].pc = "run_close" /\ task'[t].pc = "idle")
            => \A s \in Sessions :
                  (phase[s] # "Closed" /\ phase'[s] = "Closed")
                  => s = task[t].own]_vars

\* C29: in the LLM client a session's public key is set only from an
\* attestation document that passed verification: a reply without an
\* attestation document leaves the session without a key, and no request
\* is sealed under a key that did not come out of a verified document.
C29_LlmKeyOnlyFromVerifiedDocument ==
    call.fn = "completions"
    => LET verified == /\ call.reply.has_doc
                       /\ ParseAttestation(call.reply.doc, call.nonce) = "ok"
                       /\ call.policy.given
                          => VerifyPcrs(call.policy, call.reply.doc)
       IN  /\ ~call.reply.has_doc => call.bootstrap.key = Null
           /\ call.sealed # Null
              => verified /\ call.sealed = call.reply.doc.public_key

\* C30: when the function reference has no checksum, a connect whose
\* bootstrap succeeded succeeds, whatever the user_data of the attestation
\* is (absent, without func_checksum, or with one), and leaves the
\* connection open: the client does not close it.
C30_NoChecksumNoCheck ==
    \A t \in Tasks :
        (/\ Finished(t, {"connect"})
         /\ task[t].sess # Null
         /\ phase[task[t].sess] = "Bootstrapped"
         /\ ~task[t].checksum.given)
        => /\ task[t].out = "ok"
           /\ websocket[task[t].sess] = task[t].sess
           /\ wsCloseCalls[task[t].sess] = 0

====
